---- MODULE Spec2Model ----
(***************************************************************************)
(* Deep Research Agent: the LangGraph workflow of main.py.                 *)
(*                                                                         *)
(*   planner --> researcher --(manager_logic)--> researcher | writer --> END *)
(*                                                                         *)
(* Text is modelled as a sequence of pieces: the planner's model output is *)
(* a sequence of single characters (so that strip/split are computed as    *)
(* Python computes them); fixed literals of f-strings are single pieces.   *)
(*                                                                         *)
(* Specifications:                                                         *)
(*   Spec        a run of the graph from the initial state its callers pass *)
(*   SpecAnyInit a run of the graph from any initial state                 *)
(*   SpecApp     a submission in app.py or main.py: credential check, run, *)
(*               and what the script does with the outcome                 *)
(*   SpecCalls   manager_logic, the plan parsing, the scrape loop and the  *)
(*               document truncation, each called on its own               *)
(***************************************************************************)
EXTENDS Integers, Sequences, FiniteSets, TLC

(***************************************************************************)
(* Bounds of the model and constants of the program                        *)
(***************************************************************************)
\* most lines of a model output the Planner is given
MaxLines == 4
\* longest summaries list / largest cursor of an arbitrary initial state
MaxInitLen == 1
\* largest cursor manager_logic is called with on its own
MaxCursor == 4
\* by how many characters the longest page text exceeds the truncation limit
MaxExcess == 2
\* plan = [...][:3]
PlanLimit == 3
\* ddgs.text(query, max_results=3)
MaxResults == 3
\* text[:8000]
TruncLimit == 8000

\* what str.strip() removes (of the characters modelled)
Whitespace == {" ", "\n"}

Min(a, b) == IF a < b THEN a ELSE b

SeqsUpTo(S, n) == UNION {[1..k -> S] : k \in 0..n}

(***************************************************************************)
(* Python string and list helpers                                          *)
(***************************************************************************)
\* s[:n]
Take(s, n) == SubSeq(s, 1, Min(n, Len(s)))

RECURSIVE LStrip(_)
LStrip(s) == IF s # <<>> /\ s[1] \in Whitespace THEN LStrip(Tail(s)) ELSE s

RECURSIVE RStrip(_)
RStrip(s) ==
    IF s # <<>> /\ s[Len(s)] \in Whitespace
    THEN RStrip(SubSeq(s, 1, Len(s) - 1))
    ELSE s

\* Strip, were only the left side stripped
StripLeftOnly(s) == LStrip(s)

\* str.strip()
Strip(s) == RStrip(LStrip(s))

\* str.split('\n'): always at least one piece, empty pieces are kept
RECURSIVE Split(_)
Split(s) ==
    IF \E i \in 1..Len(s) : s[i] = "\n"
    THEN LET i == CHOOSE k \in 1..Len(s) :
                      s[k] = "\n" /\ \A j \in 1..(k - 1) : s[j] # "\n"
         IN  <<SubSeq(s, 1, i - 1)>> \o Split(SubSeq(s, i + 1, Len(s)))
    ELSE <<s>>

\* sep.join(parts)
RECURSIVE Join(_, _)
Join(sep, parts) ==
    IF parts = <<>> THEN <<>>
    ELSE IF Len(parts) = 1 THEN parts[1]
    ELSE parts[1] \o sep \o Join(sep, Tail(parts))

(***************************************************************************)
(* External collaborators: what they can answer                            *)
(***************************************************************************)
Topics == {<<"t">>}

\* llm.invoke: raises, or returns a response with a content
LLMFails == [ok |-> FALSE, content |-> <<>>]
LLMReturns(texts) == {[ok |-> TRUE, content |-> t] : t \in texts}

\* the lines a model output is made of: empty, blank, a query, and a query
\* with blanks around it
Lines == {<<>>, <<" ">>, <<"a">>, <<" ", "b", " ">>}
PlannerOutputs == {Join(<<"\n">>, ls) : ls \in SeqsUpTo(Lines, MaxLines)}
SummaryTexts == {<<"S">>}
ReportTexts == {<<"R">>}
PageTexts == {<<"p">>}

\* the search engine's ranking; a search returns a prefix of it
Ranking == <<"u1", "u2", "u3">>
ResultLists == {[i \in 1..n |-> [href |-> Ranking[i]]] : n \in 0..MaxResults}
SearchFails == [raises |-> TRUE, results |-> <<>>]
SearchOutcomes ==
    {SearchFails} \cup {[raises |-> FALSE, results |-> r] : r \in ResultLists}

\* trafilatura on one URL: an exception, fetch_url -> None, extract -> None,
\* or an extracted text
ExtractOutcomes ==
    {[kind |-> "raise", text |-> <<>>],
     [kind |-> "fetch_none", text |-> <<>>],
     [kind |-> "extract_none", text |-> <<>>]}
    \cup {[kind |-> "text", text |-> t] : t \in PageTexts}

(***************************************************************************)
(* State                                                                   *)
(***************************************************************************)
VARIABLES
    state,              \* AgentState: the channels of the graph
    node,               \* the node the engine runs next, or END / FAILED
    error,              \* the exception that left the run, "none" if none
    researcher_entered, \* invocations of research_node so far
    researcher_done,    \* invocations of research_node that returned
    writer_entered,     \* invocations of writer_node so far
    llm_calls,          \* llm.invoke calls so far
    llm_prompt,         \* the messages of the last llm.invoke call
    scraped_texts,      \* research_node's local list, as of its last run
    caught,             \* exceptions research_node caught in its last run
    events,             \* what graph_app.stream has yielded so far
    produced,           \* per returned research_node call: its query and summary
    call_arg,           \* a function called on its own: its argument
    call_result,        \* ... and what it returned
    credential,         \* os.environ.get("GOOGLE_API_KEY")
    messages,           \* st.session_state.messages
    session_report,     \* st.session_state.final_report
    ui_error,           \* the error message shown to the user, "none" if none
    caller              \* the script that runs the graph: app.py or main.py

\* the variables of a function called on its own
call_vars == <<call_arg, call_result>>

\* the variables of the Streamlit script
app_vars == <<credential, messages, session_report, ui_error, caller>>

vars == <<state, node, error, researcher_entered, researcher_done,
          writer_entered, llm_calls, llm_prompt, scraped_texts, caught,
          events, produced, call_vars, app_vars>>

\* final_report before any node has written it
Absent == <<"<absent>">>

AgentState(topic, plan, index, summaries, report) ==
    [topic |-> topic, plan |-> plan, current_query_index |-> index,
     summaries |-> summaries, final_report |-> report]

\* ApplyUpdate, were the new summaries put in front of the old ones
ApplyUpdatePrepend(st, upd) ==
    [k \in DOMAIN st |->
        IF k \in DOMAIN upd
        THEN IF k = "summaries" THEN upd[k] \o st[k] ELSE upd[k]
        ELSE st[k]]

\* The engine merges a node's returned dict into the state: summaries is
\* Annotated[List[str], operator.add] (old + new), every other key is
\* overwritten.
ApplyUpdate(st, upd) ==
    [k \in DOMAIN st |->
        IF k \in DOMAIN upd
        THEN IF k = "summaries" THEN st[k] \o upd[k] ELSE upd[k]
        ELSE st[k]]

\* the run's bookkeeping at its start
RunStart ==
    /\ node = "planner"
    /\ error = "none"
    /\ researcher_entered = 0
    /\ researcher_done = 0
    /\ writer_entered = 0
    /\ llm_calls = 0
    /\ llm_prompt = <<>>
    /\ scraped_texts = <<>>
    /\ caught = 0
    /\ events = <<>>
    /\ produced = <<>>

\* no function is being called on its own
NoCall == [fn |-> "none"]
CallsIdle == call_arg = NoCall /\ call_result = NoCall

\* app.py lines 88-92: the session before the first submission
NoReport == <<"<None>">>
SessionStart ==
    /\ messages = <<>>
    /\ session_report = NoReport
    /\ ui_error = "none"

\* The initial states the repository's callers build: app.py passes an empty
\* plan, index 0 and no summaries; main.py passes the topic alone (the other
\* channels are then empty until the planner writes them).
Init ==
    /\ \E t \in Topics : state = AgentState(t, <<>>, 0, <<>>, Absent)
    /\ RunStart
    /\ CallsIdle
    /\ credential = "key"
    /\ caller = "app.py"
    /\ SessionStart

\* Any initial state handed to the compiled graph, e.g. the result of an
\* earlier run.
InitAny ==
    /\ \E t \in Topics, p \in {<<>>, <<<<"a">>>>}, i \in 0..MaxInitLen,
          s \in SeqsUpTo(SummaryTexts, MaxInitLen) :
          state = AgentState(t, p, i, s, Absent)
    /\ RunStart
    /\ CallsIdle
    /\ credential = "key"
    /\ caller = "app.py"
    /\ SessionStart

(***************************************************************************)
(* Nodes                                                                   *)
(***************************************************************************)
\* Raise, were the exception swallowed and the run carried on to the writer
RaiseAndCarryOn(exc) ==
    /\ node' = "writer"
    /\ error' = exc
    /\ state' = state

\* an exception leaves the node: the engine applies no update and stops
Raise(exc) ==
    /\ node' = "FAILED"
    /\ error' = exc
    /\ state' = state

\* StreamEvent, were the stream yielding the whole state after each node
StreamEventValues(name, upd, st) == [node |-> name, update |-> st]

\* app.py line 120: graph_app.stream yields {node_name: the node's update};
\* st is the state after the update was merged
StreamEvent(name, upd, st) == [node |-> name, update |-> upd]

\* lines 57-58
ParsePlan(content) ==
    LET raw_plan == Split(Strip(content))
        stripped == [i \in 1..Len(raw_plan) |-> Strip(raw_plan[i])]
    IN  Take(SelectSeq(stripped, LAMBDA line : line # <<>>), PlanLimit)

\* lines 45-54: the system instruction, then the topic
PlannerPrompt(topic) ==
    <<"You are a research planner. Break down the user's topic into 3 ...">>
    \o topic

\* lines 63-67
PlannerUpdate(plan) ==
    [plan |-> plan, current_query_index |-> 0, summaries |-> <<>>]

planner_node ==
    /\ node = "planner"
    /\ \E response \in {LLMFails} \cup LLMReturns(PlannerOutputs) :
          /\ llm_calls' = llm_calls + 1
          /\ llm_prompt' = PlannerPrompt(state.topic)
          /\ IF ~response.ok
             THEN /\ Raise("LLMError")
                  /\ events' = events
             ELSE LET upd == PlannerUpdate(ParsePlan(response.content)) IN
                  /\ state' = ApplyUpdate(state, upd)
                  /\ events' = Append(events, StreamEvent("planner", upd, state'))
                  /\ node' = "researcher"
                  /\ error' = error
    /\ UNCHANGED <<researcher_entered, researcher_done, writer_entered,
                   scraped_texts, caught, produced, call_vars, app_vars>>

\* Doc, were the text not truncated
DocUntruncated(url, text) == <<"SOURCE: ", url, "\nCONTENT:\n">> \o text

\* line 109: f"SOURCE: {url}\nCONTENT:\n{text[:8000]}"
Doc(url, text) == <<"SOURCE: ", url, "\nCONTENT:\n">> \o Take(text, TruncLimit)

\* lines 85-93: an exception or a falsy answer leaves search_results empty
SearchResults(search) ==
    IF search.raises \/ search.results = <<>> THEN <<>> ELSE search.results

\* ScrapeLoop, were the loop left at the first result that fails
RECURSIVE ScrapeLoopStopsAtFailure(_, _, _)
ScrapeLoopStopsAtFailure(results, extract, i) ==
    IF i > Len(results) THEN <<>>
    ELSE IF extract[i].kind = "text" /\ extract[i].text # <<>>
         THEN <<Doc(results[i].href, extract[i].text)>>
              \o ScrapeLoopStopsAtFailure(results, extract, i + 1)
         ELSE <<>>

\* lines 96-115: the scrape loop from result i on; extract[i] is what
\* trafilatura does with result i
RECURSIVE ScrapeLoop(_, _, _)
ScrapeLoop(results, extract, i) ==
    IF i > Len(results) THEN <<>>
    ELSE (IF extract[i].kind = "text" /\ extract[i].text # <<>>
          THEN <<Doc(results[i].href, extract[i].text)>>
          ELSE <<>>)
         \o ScrapeLoop(results, extract, i + 1)

\* CombinedText, were the separator also put before the first document
CombinedTextLeadingSep(scraped) == <<"\n\n">> \o Join(<<"\n\n">>, scraped)

\* lines 92-93 and 114-115: the except blocks entered
Caught(search, extract) ==
    (IF search.raises THEN 1 ELSE 0)
    + Cardinality({i \in DOMAIN extract : extract[i].kind = "raise"})

\* line 118
CombinedText(scraped) == Join(<<"\n\n">>, scraped)

\* line 132
Placeholder(query) ==
    <<"No detailed information could be scraped for the query: ">> \o query

\* lines 123-128
SummaryPrompt(query, combined_text) ==
    <<"You are a research assistant. Analyze ... for the query: '">> \o query
    \o <<"'. Provide a concise, fact-heavy summary ...\n\n">> \o combined_text

\* ResearchUpdate, were the summary left out of the returned dict
ResearchUpdateNoSummary(summary, index) ==
    [current_query_index |-> index + 1]

\* ResearchUpdate, were the index advanced past the next query
ResearchUpdateSkip(summary, index) ==
    [summaries |-> <<summary>>, current_query_index |-> index + 2]

\* ResearchUpdate, were the summary also stored as a draft of the report
ResearchUpdateDraft(summary, index) ==
    [summaries |-> <<summary>>, current_query_index |-> index + 1,
     final_report |-> summary]

\* lines 137-140
ResearchUpdate(summary, index) ==
    [summaries |-> <<summary>>, current_query_index |-> index + 1]

\* manager_logic, were the comparison off by one
manager_logic_early(st) ==
    IF st.current_query_index + 1 < Len(st.plan) THEN "continue" ELSE "finish"

\* lines 167-174: the conditional edge after the researcher
manager_logic(st) ==
    IF st.current_query_index < Len(st.plan) THEN "continue" ELSE "finish"

\* lines 192-199
Route(decision) == IF decision = "continue" THEN "researcher" ELSE "writer"

research_node ==
    /\ node = "researcher"
    /\ researcher_entered' = researcher_entered + 1
    /\ LET plan == state.plan
           index == state.current_query_index
       IN  IF index >= Len(plan)
           THEN \* plan[index] raises IndexError
                /\ Raise("IndexError")
                /\ UNCHANGED <<researcher_done, llm_calls, llm_prompt,
                               scraped_texts, caught, events, produced>>
           ELSE LET query == plan[index + 1] IN
                \E search \in SearchOutcomes :
                \E extract \in [1..Len(SearchResults(search)) -> ExtractOutcomes] :
                \E response \in {LLMFails} \cup LLMReturns(SummaryTexts) :
                    LET scraped == ScrapeLoop(SearchResults(search), extract, 1)
                        combined_text == CombinedText(scraped)
                        Return(summary) ==
                            LET upd == ResearchUpdate(summary, index) IN
                            /\ state' = ApplyUpdate(state, upd)
                            /\ events' = Append(events,
                                   StreamEvent("researcher", upd, state'))
                            /\ produced' = Append(produced,
                                   [query |-> query, summary |-> summary])
                            /\ node' = Route(manager_logic(state'))
                            /\ error' = error
                            /\ researcher_done' = researcher_done + 1
                    IN  /\ scraped_texts' = scraped
                        /\ caught' = Caught(search, extract)
                        /\ IF combined_text # <<>>
                           THEN /\ llm_calls' = llm_calls + 1
                                /\ llm_prompt' = SummaryPrompt(query, combined_text)
                                /\ IF ~response.ok
                                   THEN /\ Raise("LLMError")
                                        /\ UNCHANGED <<researcher_done, events,
                                                       produced>>
                                   ELSE Return(response.content)
                           ELSE /\ UNCHANGED <<llm_calls, llm_prompt>>
                                /\ Return(Placeholder(query))
    /\ UNCHANGED <<writer_entered, call_vars, app_vars>>

\* lines 151-159
WriterPrompt(topic, summaries) ==
    <<"You are a professional technical writer. ... a report on: '">> \o topic
    \o <<"'.\nBelow are the summaries from the research phase:\n\n">>
    \o Join(<<"\n\n---\n\n">>, summaries)
    \o <<"\n\nWrite a comprehensive, well-structured Markdown report ...">>

\* WriterUpdate, were the writer also clearing the plan
WriterUpdateClearsPlan(report) == [final_report |-> report, plan |-> <<>>]

\* line 163
WriterUpdate(report) == [final_report |-> report]

writer_node ==
    /\ node = "writer"
    /\ writer_entered' = writer_entered + 1
    /\ \E response \in {LLMFails} \cup LLMReturns(ReportTexts) :
          /\ llm_calls' = llm_calls + 1
          /\ llm_prompt' = WriterPrompt(state.topic, state.summaries)
          /\ IF ~response.ok
             THEN /\ Raise("LLMError")
                  /\ events' = events
             ELSE LET upd == WriterUpdate(response.content) IN
                  /\ state' = ApplyUpdate(state, upd)
                  /\ events' = Append(events, StreamEvent("writer", upd, state'))
                  /\ node' = "END"
                  /\ error' = error
    /\ UNCHANGED <<researcher_entered, researcher_done, scraped_texts,
                   caught, produced, call_vars, app_vars>>

Next == planner_node \/ research_node \/ writer_node

Spec == Init /\ [][Next]_vars

SpecAnyInit == InitAny /\ [][Next]_vars

(***************************************************************************)
(* The functions of main.py called on their own, on arguments a run need   *)
(* not reach                                                               *)
(***************************************************************************)
Queries == {<<"a">>, <<"b">>}

\* a page text of n characters
PageText(n) == [i \in 1..n |-> "x"]

\* page texts around and beyond the truncation limit
LongPageTexts ==
    {PageText(n) : n \in (TruncLimit - 1)..(TruncLimit + MaxExcess)}

\* trafilatura on one URL, long pages included
ExtractOutcomesLong ==
    ExtractOutcomes
    \cup {[kind |-> "text", text |-> PageText(TruncLimit + MaxExcess)]}

ManagerArgs ==
    {[fn |-> "manager_logic",
      st |-> AgentState(t, p, i, <<>>, Absent)] :
        t \in Topics, p \in SeqsUpTo(Queries, PlanLimit), i \in 0..MaxCursor}

ParseArgs ==
    {[fn |-> "ParsePlan", lines |-> ls, content |-> Join(<<"\n">>, ls)] :
        ls \in SeqsUpTo(Lines, MaxLines)}

ScrapeArgs ==
    UNION {{[fn |-> "ScrapeLoop", query |-> <<"a">>, results |-> r,
             extract |-> e] : e \in [1..Len(r) -> ExtractOutcomesLong]} :
           r \in ResultLists}

DocArgs ==
    {[fn |-> "Doc", url |-> "u1", text |-> t] : t \in PageTexts \cup LongPageTexts}

CallArgs == ManagerArgs \cup ParseArgs \cup ScrapeArgs \cup DocArgs

InitCalls ==
    /\ \E a \in CallArgs :
          /\ call_arg = a
          /\ state = IF a.fn = "manager_logic" THEN a.st
                     ELSE AgentState(<<"t">>, <<>>, 0, <<>>, Absent)
    /\ call_result = NoCall
    /\ node = "call"
    /\ error = "none"
    /\ researcher_entered = 0
    /\ researcher_done = 0
    /\ writer_entered = 0
    /\ llm_calls = 0
    /\ llm_prompt = <<>>
    /\ scraped_texts = <<>>
    /\ caught = 0
    /\ events = <<>>
    /\ produced = <<>>
    /\ credential = "key"
    /\ caller = "app.py"
    /\ SessionStart

\* the call returns r; nothing else changes
Returns(r) ==
    /\ call_result' = r
    /\ node' = "returned"
    /\ UNCHANGED <<state, error, researcher_entered, researcher_done,
                   writer_entered, llm_calls, llm_prompt, scraped_texts,
                   caught, events, produced, call_arg, app_vars>>

\* lines 167-174 applied to the state
manager_call ==
    /\ node = "call"
    /\ call_arg.fn = "manager_logic"
    /\ Returns([fn |-> "manager_logic", decision |-> manager_logic(state)])

\* lines 57-58 applied to a model output
parse_call ==
    /\ node = "call"
    /\ call_arg.fn = "ParsePlan"
    /\ Returns([fn |-> "ParsePlan", plan |-> ParsePlan(call_arg.content)])

\* lines 96-128 applied to a list of search results: the scraped documents
\* and the summarization prompt, empty when the model is not called
scrape_call ==
    /\ node = "call"
    /\ call_arg.fn = "ScrapeLoop"
    /\ LET scraped == ScrapeLoop(call_arg.results, call_arg.extract, 1)
           combined_text == CombinedText(scraped)
       IN  Returns([fn |-> "ScrapeLoop", scraped |-> scraped,
                    prompt |-> IF combined_text # <<>>
                               THEN SummaryPrompt(call_arg.query, combined_text)
                               ELSE <<>>])

\* line 109 applied to one extracted text
doc_call ==
    /\ node = "call"
    /\ call_arg.fn = "Doc"
    /\ Returns([fn |-> "Doc", doc |-> Doc(call_arg.url, call_arg.text)])

NextCalls == manager_call \/ parse_call \/ scrape_call \/ doc_call

SpecCalls == InitCalls /\ [][NextCalls]_vars

(***************************************************************************)
(* The two scripts that run the graph: the Streamlit page of app.py and    *)
(* the __main__ block of main.py                                           *)
(***************************************************************************)
\* os.environ.get("GOOGLE_API_KEY") when the variable is not set
Unset == "<None>"
Credentials == {Unset, "", "key"}

\* HasCredential, were the variable only tested for being set
HasCredentialIfSet(key) == key # Unset

\* app.py line 101, main.py line 213: not os.environ.get("GOOGLE_API_KEY")
HasCredential(key) == key # Unset /\ key # ""

\* the session of an earlier submission that ended with a report
EarlierSession ==
    /\ messages = <<[role |-> "user", content |-> <<"t">>],
                    [role |-> "assistant", content |-> <<"R">>]>>
    /\ session_report = <<"R">>
    /\ ui_error = "none"

InitApp ==
    /\ \E t \in Topics : state = AgentState(t, <<>>, 0, <<>>, Absent)
    /\ credential \in Credentials
    /\ \/ caller = "app.py" /\ node = "chat_input"
          /\ (SessionStart \/ EarlierSession)
       \/ caller = "main.py" /\ node = "main" /\ SessionStart
    /\ error = "none"
    /\ researcher_entered = 0
    /\ researcher_done = 0
    /\ writer_entered = 0
    /\ llm_calls = 0
    /\ llm_prompt = <<>>
    /\ scraped_texts = <<>>
    /\ caught = 0
    /\ events = <<>>
    /\ produced = <<>>
    /\ CallsIdle

\* app.py lines 100-116: a topic is submitted
chat_input ==
    /\ node = "chat_input"
    /\ IF ~HasCredential(credential)
       THEN \* st.error, st.stop
            /\ ui_error' = "Please enter your Google API Key in the sidebar."
            /\ node' = "STOPPED"
            /\ UNCHANGED messages
       ELSE /\ messages' = Append(messages,
                               [role |-> "user", content |-> state.topic])
            /\ node' = "planner"
            /\ UNCHANGED ui_error
    /\ UNCHANGED <<state, error, researcher_entered, researcher_done,
                   writer_entered, llm_calls, llm_prompt, scraped_texts,
                   caught, events, produced, call_vars, credential,
                   session_report, caller>>

\* main.py lines 212-229: the key is asked for when the environment has
\* none, and the topic only after a key is there
main_block ==
    /\ node = "main"
    /\ \E typed \in {"", "key"} :
          IF HasCredential(credential)
          THEN node' = "planner" /\ UNCHANGED <<credential, ui_error>>
          ELSE IF typed # ""
               THEN /\ credential' = typed
                    /\ node' = "planner"
                    /\ UNCHANGED ui_error
               ELSE \* exit(1)
                    /\ ui_error' = "Error: GOOGLE_API_KEY is required."
                    /\ node' = "STOPPED"
                    /\ UNCHANGED credential
    /\ UNCHANGED <<state, error, researcher_entered, researcher_done,
                   writer_entered, llm_calls, llm_prompt, scraped_texts,
                   caught, events, produced, call_vars, messages,
                   session_report, caller>>

\* app.py lines 137-146 (the report of the writer's event is shown and kept
\* in the session), main.py lines 231-241 (it is printed and saved)
caller_finish ==
    /\ node = "END"
    /\ LET final_report_text == IF caller = "app.py"
                                THEN events[Len(events)].update.final_report
                                ELSE state.final_report
       IN  /\ session_report' = final_report_text
           /\ messages' = IF caller = "app.py"
                          THEN Append(messages, [role |-> "assistant",
                                                 content |-> final_report_text])
                          ELSE messages
    /\ node' = "DONE"
    /\ UNCHANGED <<state, error, researcher_entered, researcher_done,
                   writer_entered, llm_calls, llm_prompt, scraped_texts,
                   caught, events, produced, call_vars, credential,
                   ui_error, caller>>

\* app.py lines 148-150, main.py lines 243-244: except Exception
caller_except ==
    /\ node = "FAILED"
    /\ ui_error' = "An error occurred"
    /\ node' = "ERROR_SHOWN"
    /\ UNCHANGED <<state, error, researcher_entered, researcher_done,
                   writer_entered, llm_calls, llm_prompt, scraped_texts,
                   caught, events, produced, call_vars, credential,
                   messages, session_report, caller>>

NextApp ==
    \/ chat_input
    \/ main_block
    \/ planner_node
    \/ research_node
    \/ writer_node
    \/ caller_finish
    \/ caller_except

SpecApp == InitApp /\ [][NextApp]_vars

(***************************************************************************)
(* Vocabulary of the properties                                            *)
(***************************************************************************)
cursor == state.current_query_index
plan == state.plan
summaries == state.summaries
final_report == state.final_report

\* the Planner has returned and the engine has merged its update
PlannerCompleted ==
    node # "planner" /\ ~(node = "FAILED" /\ researcher_entered = 0)

\* a step of the Researcher that got past the lookup plan[cursor]
ResearcherStep == node = "researcher" /\ cursor < Len(plan)

Advanced ==
    /\ cursor' = cursor + 1
    /\ Len(summaries') = Len(summaries) + 1

(***************************************************************************)
(* Properties                                                              *)
(***************************************************************************)
\* C1: in every state after the Planner has completed, whatever the initial
\* state of the run, the number of summaries equals the cursor.
C1_SummariesMatchCursor ==
    PlannerCompleted => Len(summaries) = cursor

\* C2 (as stated): every Researcher invocation that has a query to work on
\* ends with cursor and summaries advanced by one, whichever sub-step failed,
\* the summarization model call included.
C2_AlwaysAdvances ==
    [][ResearcherStep => Advanced]_vars

\* C2 (amended): every Researcher invocation either advances cursor and
\* summaries by exactly one, or aborts the run with the state unchanged; it
\* aborts only when the summarization model call fails (which needs a scraped
\* document) or when plan[cursor] does not exist, never on a search or
\* fetch/extract failure.
C2_AdvancesOrAborts ==
    [][node = "researcher" =>
          \/ /\ Advanced
             /\ node' \in {"researcher", "writer"}
             /\ researcher_done' = researcher_done + 1
          \/ /\ node' = "FAILED"
             /\ state' = state
             /\ \/ /\ error' = "LLMError"
                   /\ scraped_texts' # <<>>
                   /\ llm_calls' = llm_calls + 1
                \/ /\ error' = "IndexError"
                   /\ cursor >= Len(plan)]_vars

\* C2 witness: a Researcher invocation in which every one of three
\* fetch/extract calls raised has completed with cursor and summaries at 1.
C2_Witness ==
    /\ researcher_done = 1
    /\ caught = MaxResults
    /\ scraped_texts = <<>>
    /\ cursor = 1
    /\ Len(summaries) = 1

\* C3: the Researcher runs exactly len(plan) times, never more, and the run
\* reaches the Writer only after len(plan) completed iterations.
C3_LoopRunsLenPlanTimes ==
    PlannerCompleted =>
        /\ researcher_entered <= Len(plan)
        /\ node \in {"writer", "END"} => researcher_done = Len(plan)

\* C4: the plan the Planner produces has between 1 and 3 entries.
C4_PlanLengthOneToThree ==
    PlannerCompleted => (1 <= Len(plan) /\ Len(plan) <= 3)

\* C5: when the Planner completes, cursor is 0 and summaries is empty,
\* whatever they were before.
C5_PlannerResets ==
    (node = "researcher" /\ researcher_entered = 0) =>
        (cursor = 0 /\ summaries = <<>>)

\* C6: the Writer is invoked at most once, only with cursor = len(plan), and
\* exactly once in a run that ends without failure.
C6_WriterOnceAtEnd ==
    /\ writer_entered <= 1
    /\ (node = "writer" \/ writer_entered >= 1) => cursor = Len(plan)
    /\ node = "END" => writer_entered = 1

\* C6 witness: a run over a three-query plan has ended after one Writer call.
C6_Witness ==
    node = "END" /\ writer_entered = 1 /\ Len(plan) = 3 /\ cursor = 3

\* C7: a model failure in any node puts the run in FAILED with no final
\* report, and no step leaves FAILED.
C7_LLMFailureAborts ==
    /\ [](error = "LLMError" => (node = "FAILED" /\ final_report = Absent))
    /\ [][node = "FAILED" => FALSE]_vars

\* C7 witness: the summarization call of the second query has failed.
C7_Witness ==
    /\ node = "FAILED"
    /\ error = "LLMError"
    /\ researcher_entered = 2
    /\ writer_entered = 0

\* C8: a run fails only when a model call fails; with every model call
\* succeeding it is never aborted.
C8_OnlyLLMFailureAborts ==
    node = "FAILED" => error = "LLMError"

\* C9: a Researcher invocation calls the model iff it scraped at least one
\* document; with none it appends the placeholder of plan[cursor] and
\* advances the cursor.
C9_SummarizeIffScraped ==
    [][ResearcherStep =>
          /\ (llm_calls' = llm_calls + 1) <=> (scraped_texts' # <<>>)
          /\ (llm_calls' = llm_calls) <=> (scraped_texts' = <<>>)
          /\ scraped_texts' = <<>> =>
                /\ summaries' = Append(summaries, Placeholder(plan[cursor + 1]))
                /\ cursor' = cursor + 1
                /\ node' # "FAILED"]_vars

\* C9 witness: the second query scraped nothing, its summary is the
\* placeholder, and the model was called for the plan and the first query only.
C9_Witness ==
    /\ researcher_done = 2
    /\ scraped_texts = <<>>
    /\ llm_calls = 2
    /\ summaries[2] = Placeholder(plan[2])

\* C10: the cursor stays within 0..len(plan) and, once the Planner has set
\* it, never decreases.
C10_CursorInRange ==
    /\ [](0 <= cursor /\ cursor <= Len(plan))
    /\ [][node # "planner" => cursor' >= cursor]_vars

\* C10 witness: the cursor has reached len(plan) = 3.
C10_Witness ==
    cursor = 3 /\ Len(plan) = 3 /\ node = "writer"

\* C11: the i-th summary is the one produced for the i-th query of the plan,
\* and when the Writer runs there is exactly one summary per query.
C11_SummariesInPlanOrder ==
    /\ Len(produced) <= Len(summaries)
    /\ Len(produced) <= Len(plan)
    /\ \A i \in 1..Len(produced) :
          /\ produced[i].query = plan[i]
          /\ summaries[i] = produced[i].summary
    /\ (node \in {"writer", "END"} \/ writer_entered >= 1) =>
          (Len(summaries) = Len(plan) /\ Len(produced) = Len(plan))

\* C11 witness: the Writer is about to run on three summaries, the first two
\* different, of a plan whose first two queries differ.
C11_Witness ==
    /\ node = "writer"
    /\ Len(plan) = 3
    /\ plan[1] # plan[2]
    /\ summaries[1] # summaries[2]

\* the events a run has yielded after its planner, k researcher calls and,
\* if w, its writer have completed
EventsAreInOrder(k, w) ==
    /\ Len(events) = 1 + k + (IF w THEN 1 ELSE 0)
    /\ events[1].node = "planner"
    /\ \A i \in 1..k :
          /\ events[1 + i].node = "researcher"
          /\ events[1 + i].update.current_query_index = i
          /\ Len(events[1 + i].update.summaries) = 1
          /\ events[1 + i].update.summaries[1] = produced[i].summary
    /\ w => events[k + 2].node = "writer"

\* C12: the stream yields one event per completed node and none for a node
\* that failed: planner, then the researcher calls in order, the k-th with
\* cursor k and its one summary, then the writer; a run that ends has
\* yielded len(plan) researcher events.
C12_OneEventPerNode ==
    /\ ~PlannerCompleted => events = <<>>
    /\ PlannerCompleted => EventsAreInOrder(researcher_done, node = "END")
    /\ node = "END" => researcher_done = Len(plan)

\* C12 witness: a run over a three-query plan has ended with five events.
C12_Witness ==
    node = "END" /\ Len(plan) = 3 /\ Len(events) = 5

\* C13: no step changes the topic; after the Planner no step changes the
\* plan; the Researcher leaves topic, plan and final_report alone, the
\* Writer leaves topic, plan, cursor and summaries alone.
C13_FieldOwnership ==
    [][/\ state'.topic = state.topic
       /\ node # "planner" => plan' = plan
       /\ node = "researcher" => final_report' = final_report
       /\ node = "writer" => (cursor' = cursor /\ summaries' = summaries)]_vars

\* C13 witness: the Writer has written the report of a two-query run.
C13_Witness ==
    node = "END" /\ Len(plan) = 2 /\ final_report \in ReportTexts

\* C14: final_report is unset until the Writer has completed, and once set
\* it is never changed.
C14_ReportWrittenOnce ==
    /\ [](node # "END" => final_report = Absent)
    /\ [][final_report # Absent => final_report' = final_report]_vars

\* C14 witness: the Writer has completed and the report is set.
C14_Witness ==
    node = "END" /\ final_report # Absent /\ writer_entered = 1

\* C15: called on any state, manager_logic returns "continue" exactly when
\* cursor < len(plan) and "finish" otherwise, and leaves the state as it was.
C15_ManagerLogic ==
    call_result.fn = "manager_logic" =>
        /\ call_result.decision \in {"continue", "finish"}
        /\ (call_result.decision = "continue") <=> (cursor < Len(plan))
        /\ state = call_arg.st

\* C15 witness: manager_logic has answered "finish" for a cursor beyond the
\* end of a non-empty plan.
C15_Witness ==
    /\ call_result.fn = "manager_logic"
    /\ call_result.decision = "finish"
    /\ Len(plan) > 0
    /\ cursor > Len(plan)

\* a line with a character that is not white space
NonBlank(line) == \E i \in 1..Len(line) : line[i] \notin {" ", "\n"}

\* a non-blank line without the white space around it
Trimmed(line) ==
    LET ink == {i \in 1..Len(line) : line[i] \notin {" ", "\n"}}
        lo == CHOOSE i \in ink : \A j \in ink : i <= j
        hi == CHOOSE i \in ink : \A j \in ink : j <= i
    IN  [i \in 1..(hi - lo + 1) |-> line[lo + i - 1]]

\* the first three non-blank lines, trimmed
FirstThreeQueries(lines) ==
    LET nonblank == SelectSeq(lines, NonBlank)
    IN  [i \in 1..(IF Len(nonblank) < 3 THEN Len(nonblank) ELSE 3) |->
            Trimmed(nonblank[i])]

\* C16: while no credential is available no node has run, nothing was
\* streamed, and no step records a message or a report; the submission
\* ends with an error message shown.
C16_NoCredentialNoRun ==
    /\ [](credential \in {Unset, ""} =>
            /\ node \in {"chat_input", "main", "STOPPED"}
            /\ llm_calls = 0
            /\ researcher_entered = 0
            /\ writer_entered = 0
            /\ events = <<>>
            /\ node = "STOPPED" => ui_error # "none")
    /\ [][(credential \in {Unset, ""}) =>
             (messages' = messages /\ session_report' = session_report)]_vars

\* C16 witness: a topic was submitted in app.py with an empty key; the script
\* has stopped with an error and the session is as it was.
C16_Witness ==
    /\ caller = "app.py"
    /\ credential = ""
    /\ node = "STOPPED"
    /\ ui_error # "none"
    /\ messages = <<>>
    /\ session_report = NoReport

\* C17: the plan parsed from a model output is its first three non-blank
\* lines, trimmed, in order; no entry is empty.
C17_PlanIsFirstThreeLines ==
    call_result.fn = "ParsePlan" =>
        /\ call_result.plan = FirstThreeQueries(call_arg.lines)
        /\ \A i \in 1..Len(call_result.plan) : call_result.plan[i] # <<>>

\* C17 witness: an output with four non-blank lines, the second with blanks
\* around its query, has given a plan of three with the query trimmed.
C17_Witness ==
    /\ call_result.fn = "ParsePlan"
    /\ Len(SelectSeq(call_arg.lines, NonBlank)) = 4
    /\ call_arg.lines[2] = <<" ", "b", " ">>
    /\ Len(call_result.plan) = 3
    /\ call_result.plan[2] = <<"b">>

\* the results whose fetch and extraction gave a text
Scrapable(arg) ==
    {i \in 1..Len(arg.results) :
        arg.extract[i].kind = "text" /\ arg.extract[i].text # <<>>}

\* the k-th smallest element of a set of numbers
Kth(S, k) == CHOOSE i \in S : Cardinality({j \in S : j < i}) = k - 1

\* the URLs of the documents in a text, in order
SourcesIn(text) ==
    LET at == {j \in 1..(Len(text) - 1) : text[j] = "SOURCE: "}
    IN  [k \in 1..Cardinality(at) |-> text[Kth(at, k) + 1]]

\* C18: the documents scraped, and the documents in the summarization
\* prompt, are those of exactly the results that gave a text, in result
\* order, whatever happened to the results before them.
C18_FailureSkipsOneResult ==
    call_result.fn = "ScrapeLoop" =>
        LET ok == Scrapable(call_arg)
            urls == [k \in 1..Cardinality(ok) |->
                        call_arg.results[Kth(ok, k)].href]
        IN  /\ Len(call_result.scraped) = Cardinality(ok)
            /\ \A k \in 1..Cardinality(ok) :
                  /\ call_result.scraped[k][1] = "SOURCE: "
                  /\ call_result.scraped[k][2] = urls[k]
            /\ SourcesIn(call_result.prompt) = urls

\* C18 witness: the first of three results raised, the second gave no text,
\* and the third is the one document of the prompt.
C18_Witness ==
    /\ call_result.fn = "ScrapeLoop"
    /\ Len(call_arg.results) = 3
    /\ call_arg.extract[1].kind = "raise"
    /\ call_arg.extract[2].kind = "extract_none"
    /\ call_arg.extract[3].kind = "text"
    /\ SourcesIn(call_result.prompt) = <<"u3">>

\* C19: at most 3 documents are scraped for a query, and each carries at
\* most the first 8000 characters of its page text.
C19_DocumentsBounded ==
    /\ call_result.fn = "ScrapeLoop" =>
          /\ Len(call_result.scraped) <= 3
          /\ \A k \in 1..Len(call_result.scraped) :
                Len(call_result.scraped[k]) <= 3 + 8000
    /\ call_result.fn = "Doc" =>
          LET n == Len(call_arg.text)
              kept == IF n < 8000 THEN n ELSE 8000
          IN  /\ Len(call_result.doc) = 3 + kept
              /\ \A i \in 1..kept : call_result.doc[3 + i] = call_arg.text[i]

\* C19 witness: three pages longer than 8000 characters have been scraped
\* into three documents.
C19_Witness ==
    /\ call_result.fn = "ScrapeLoop"
    /\ Len(call_result.scraped) = 3
    /\ \A i \in 1..3 : Len(call_arg.extract[i].text) > 8000

\* C20: whenever the Researcher is about to run, cursor < len(plan).
C20_ResearcherHasQuery ==
    node = "researcher" => cursor < Len(plan)
====
